---------------------------- MODULE Spec2Model ----------------------------
(***************************************************************************)
(* A model of two ledger subsystems of namada:                             *)
(*   - the validator vote tally engine                                     *)
(*       shared/src/ledger/protocol/transactions/votes.rs                  *)
(*   - the IBC ValidationContext read side                                 *)
(*       core/src/ledger/ibc/context/validation.rs                         *)
(*                                                                         *)
(* Fractional voting powers are rationals n/Den with a common denominator  *)
(* Den; a power is stored as its numerator n.  Sums are exact (the tally   *)
(* adds without clamping), so a tally's numerator may exceed Den.          *)
(***************************************************************************)
EXTENDS Integers, Sequences, FiniteSets, TLC

VARIABLES
    store,        \* the Tally stored under `keys`: {} (absent) or {tally}
    res,          \* outcome of the last tally operation
    signers,      \* last argument of dedupe
    deduped,      \* last result of dedupe
    cons_store,   \* the client's consensus-state index: Height -> stored value
    cres,         \* outcome of the last consensus-state search
    host,         \* the host chain: chain ID, height, proof specs, headers
    kv,           \* the IBC keys in storage: key -> stored bytes
    vres          \* outcome of the last other ValidationContext call

vars == <<store, res, signers, deduped, cons_store, cres, host, kv, vres>>

----------------------------------------------------------------------------
(* Bounds                                                                  *)

\* Validator addresses V1, V2, ordered as Rust orders Address.
Address == {1, 2}

\* Block heights at which votes are cast in the tally engine.
Heights == {10, 11}

\* The validators of the tallies that votes are added to in batches.
BatchAddress == {1, 2, 3}

\* Block heights of the signer sets handed to dedupe.
DedupeHeights == {100, 101, 200, 201}

\* Common denominator of the fractional voting powers.
Den == 3

\* A single validator's fractional voting power at a height: n/Den in [0,1].
Powers == 0 .. Den

\* Revision numbers and the greatest revision height of a client's consensus
\* states, and the most entries its index holds.
Revisions == {0, 1}
MaxConsHeight == 3
MaxEntries == 3

\* The stored (encoded) consensus states.
ConsValues == {"csA", "csB"}

\* The greatest block height of the host chain and the greatest denominator
\* of a counterparty client's trust level.
MaxBlockHeight == 3
MaxTrustDenominator == 4

\* Chain names, the revision numbers a chain ID may end with, and the proof
\* specs a chain may use.
ChainNames == {"namada", "other"}
Epochs == {0, 1}
ProofSpecs == {"ics23", "custom"}

\* The channels and the greatest sequence of a packet path, the most IBC keys
\* storage holds, and the bytes a key may hold.
ChannelIds == {"channel-0", "channel-1"}
MaxSequence == 2
MaxKeys == 2
Bytes == {"b0", "b1"}

\* The hashes and the times of host headers, and the clients whose update
\* time and height storage may hold.
Hashes == {"hA", "hB"}
Times == {"t1", "t2"}
ClientIds == {"07-tendermint-0", "07-tendermint-1"}

----------------------------------------------------------------------------
(* Vote tally engine: data                                                 *)

\* Votes = BTreeMap<Address, BlockHeight>.
Votes == UNION {[S -> Heights] : S \in SUBSET Address}

\* VoteInfo.inner = HashMap<Address, (BlockHeight, FractionalVotingPower)>.
VoteInfo == UNION {[S -> [height : Heights, power : Powers]] : S \in SUBSET Address}

\* struct Tally
Tally(voting_power, seen_by, seen) ==
    [voting_power |-> voting_power, seen_by |-> seen_by, seen |-> seen]

\* voting_power > FractionalVotingPower::TWO_THIRDS, on numerators over Den.
GtTwoThirds(p) == 3 * p > 2 * Den

\* The empty map / an unused slot of a record.
EmptyMap == [a \in {} |-> 0]

NoTally == Tally(0, EmptyMap, FALSE)

\* The three storage sub-keys of a tally: keys.seen(), keys.seen_by(),
\* keys.voting_power().
KeySeen == "seen"
KeySeenBy == "seen_by"
KeyVotingPower == "voting_power"

\* A host chain of which nothing is read, and no call made yet.
NoHost == [chain_id |-> "", height |-> 0, proof_specs |-> "", headers |-> EmptyMap]
NoCall == [op |-> "none"]

\* Result<T>
Ok(t, changed) == [ok |-> TRUE, err |-> "", tally |-> t, changed |-> changed]
Err(msg) == [ok |-> FALSE, err |-> msg, tally |-> NoTally, changed |-> {}]


----------------------------------------------------------------------------
(* Vote tally engine: operations                                           *)

\* FractionalVotingPower += FractionalVotingPower: the sum of the two
\* rationals, here of their numerators over Den.
add_assign(a, b) == a + b

\* The least element of a non-empty set of addresses: the next element a
\* BTreeMap / BTreeSet iterator yields.
First(S) == CHOOSE a \in S : \A b \in S : a <= b

\* A loop that takes the validator's power at whatever height the table
\* holds one, where the code looks up exactly (validator, block_height).
RECURSIVE new_loop_any_height(_, _, _, _)
new_loop_any_height(seen_by, voting_powers, todo, acc) ==
    IF todo = {} THEN acc
    ELSE LET validator == First(todo)
             keys == {k \in DOMAIN voting_powers : k[1] = validator}
         IN IF keys # {}
            THEN new_loop_any_height(seen_by, voting_powers, todo \ {validator},
                     add_assign(acc, voting_powers[CHOOSE k \in keys :
                                    \A l \in keys : k[2] <= l[2]]))
            ELSE -1

\* The loop of calculate_new over seen_by.iter(): accumulates the power found
\* under exactly (validator, block_height); the first missing entry ends the
\* loop.  acc is seen_by_voting_power so far; -1 stands for the early Err.
RECURSIVE new_loop(_, _, _, _)
new_loop(seen_by, voting_powers, todo, acc) ==
    IF todo = {} THEN acc
    ELSE LET validator == First(todo)
             key == <<validator, seen_by[validator]>>
         IN IF key \in DOMAIN voting_powers
            THEN new_loop(seen_by, voting_powers, todo \ {validator},
                          add_assign(acc, voting_powers[key]))
            ELSE -1

calculate_new(seen_by, voting_powers) ==
    LET seen_by_voting_power ==
            new_loop(seen_by, voting_powers, DOMAIN seen_by, 0)
    IN IF seen_by_voting_power < 0
       THEN Err("voting power was not provided for validator")
       ELSE Ok(Tally(seen_by_voting_power, seen_by,
                     GtTwoThirds(seen_by_voting_power)), {})

\* VoteInfo::voters
voters(vote_info) == DOMAIN vote_info

\* VoteInfo::get_vote_height
get_vote_height(vote_info, validator) == vote_info[validator].height

\* get_vote_power answering with the power of the first voter of vote_info.
get_vote_power_of_first(vote_info, validator) ==
    vote_info[First(DOMAIN vote_info)].power

\* VoteInfo::get_vote_power
get_vote_power(vote_info, validator) == vote_info[validator].power

\* BTreeMap::insert: adds the key or overwrites its value.
Insert(map, k, v) ==
    [x \in DOMAIN map \cup {k} |-> IF x = k THEN v ELSE map[x]]

\* update_loop without the insertion into seen_by_post.
RECURSIVE update_loop_no_insert(_, _, _)
update_loop_no_insert(vote_info, todo, acc) ==
    IF todo = {} THEN acc
    ELSE LET validator == First(todo)
         IN update_loop_no_insert(vote_info, todo \ {validator},
                [voting_power_post |-> acc.voting_power_post
                                       + get_vote_power(vote_info, validator),
                 seen_by_post |-> acc.seen_by_post])

\* update_loop assigning the voter's power where the code adds it.
RECURSIVE update_loop_assigns_power(_, _, _)
update_loop_assigns_power(vote_info, todo, acc) ==
    IF todo = {} THEN acc
    ELSE LET validator == First(todo)
         IN update_loop_assigns_power(vote_info, todo \ {validator},
                [voting_power_post |-> get_vote_power(vote_info, validator),
                 seen_by_post |-> Insert(acc.seen_by_post, validator,
                                       get_vote_height(vote_info, validator))])

\* The loop of calculate_update over new_voters: each voter is inserted into
\* seen_by_post and its power added to voting_power_post.
RECURSIVE update_loop(_, _, _)
update_loop(vote_info, todo, acc) ==
    IF todo = {} THEN acc
    ELSE LET validator == First(todo)
         IN update_loop(vote_info, todo \ {validator},
                [voting_power_post |-> add_assign(acc.voting_power_post,
                                         get_vote_power(vote_info, validator)),
                 seen_by_post |-> Insert(acc.seen_by_post, validator,
                                       get_vote_height(vote_info, validator))])

\* duplicate_voters comparing whole votes (address and height) where the code
\* compares addresses.
duplicate_voters_same_height(pre, vote_info) ==
    {a \in DOMAIN pre.seen_by \cap voters(vote_info) :
        pre.seen_by[a] = get_vote_height(vote_info, a)}

\* duplicate_voters that finds none.
duplicate_voters_none(pre, vote_info) == {}

\* Whether calculate_update takes its early return.
duplicate_voters(pre, vote_info) == DOMAIN pre.seen_by \cap voters(vote_info)

\* seen_post with >= where the code has >.
seen_post_at_two_thirds(voting_power_post) == 3 * voting_power_post >= 2 * Den

\* voting_power_post > TWO_THIRDS
seen_post(voting_power_post) == GtTwoThirds(voting_power_post)

\* calculate_update that starts its sum at zero, where the code starts at
\* pre.voting_power.
calculate_update_from_zero(pre, vote_info) ==
    IF duplicate_voters(pre, vote_info) # {}
    THEN Err("Duplicate voters found")
    ELSE LET post == update_loop(vote_info, voters(vote_info),
                        [voting_power_post |-> 0,
                         seen_by_post |-> pre.seen_by])
         IN Ok(Tally(post.voting_power_post, post.seen_by_post,
                     seen_post(post.voting_power_post)), {})

calculate_update(pre, vote_info) ==
    IF duplicate_voters(pre, vote_info) # {}
    THEN Err("Duplicate voters found")
    ELSE LET post == update_loop(vote_info, voters(vote_info),
                        [voting_power_post |-> pre.voting_power,
                         seen_by_post |-> pre.seen_by])
         IN Ok(Tally(post.voting_power_post, post.seen_by_post,
                     seen_post(post.voting_power_post)), {})

\* seen_check_fails with the condition inverted.
seen_check_inverted(pre, post) ==
    pre.seen # post.seen /\ (~pre.seen \/ post.seen)

\* seen_check_fails that never fails.
seen_check_skipped(pre, post) == FALSE

\* validate_update, first check: `seen` may only go from false to true.
seen_check_fails(pre, post) ==
    pre.seen # post.seen /\ (pre.seen \/ ~post.seen)

\* validate_update, second check: a changed voter set must be a superset.
seen_by_check_fails(pre, post) ==
    /\ DOMAIN pre.seen_by # DOMAIN post.seen_by
    /\ ~(DOMAIN pre.seen_by \subseteq DOMAIN post.seen_by)

\* validate_update, third check: a changed voting power must have increased.
voting_power_check_fails(pre, post) ==
    /\ pre.voting_power # post.voting_power
    /\ pre.voting_power >= post.voting_power

\* validate_update, last check.  The local `seen` is true exactly when the
\* first check recorded keys.seen().
quorum_check_fails(pre, post) ==
    /\ GtTwoThirds(post.voting_power)
    /\ ~(pre.seen # post.seen)
    /\ pre.voting_power >= post.voting_power

\* keys_changed recording keys.seen_by() where the code records
\* keys.voting_power().
keys_changed_wrong_key(pre, post) ==
    (IF pre.seen # post.seen THEN {KeySeen} ELSE {})
    \cup (IF DOMAIN pre.seen_by # DOMAIN post.seen_by THEN {KeySeenBy} ELSE {})
    \cup (IF pre.voting_power # post.voting_power THEN {KeySeenBy} ELSE {})

\* The keys validate_update inserts into keys_changed on its way to Ok.
keys_changed(pre, post) ==
    (IF pre.seen # post.seen THEN {KeySeen} ELSE {})
    \cup (IF DOMAIN pre.seen_by # DOMAIN post.seen_by THEN {KeySeenBy} ELSE {})
    \cup (IF pre.voting_power # post.voting_power THEN {KeyVotingPower} ELSE {})

validate_update(pre, post) ==
    IF seen_check_fails(pre, post) THEN Err("Tally seen changed")
    ELSE IF seen_by_check_fails(pre, post) THEN Err("Tally seen changed")
    ELSE IF voting_power_check_fails(pre, post)
         THEN Err("Tally voting_power changed")
    ELSE IF quorum_check_fails(pre, post)
         THEN Err("Tally is not seen even though new voting_power is enough")
    ELSE Ok(post, keys_changed(pre, post))

\* calculate_updated: read(store, keys)?, calculate_update(..)?,
\* validate_update(..)?, Ok((tally_post, changed_keys)).
calculate_updated(stored, vote_info) ==
    IF stored = {} THEN Err("read failed")
    ELSE LET tally_pre == CHOOSE t \in stored : TRUE
             updated == calculate_update(tally_pre, vote_info)
         IN IF ~updated.ok THEN updated
            ELSE validate_update(tally_pre, updated.tally)

----------------------------------------------------------------------------
(* Vote tally engine: state machine                                        *)

\* The record kept of the last operation: its inputs and what it returned.
Outcome(op, pre, vote_info, r) ==
    [op |-> op, ok |-> r.ok, err |-> r.err, pre |-> pre,
     vote_info |-> vote_info, post |-> r.tally, changed |-> r.changed]

NoOutcome == Outcome("none", NoTally, EmptyMap, Err(""))

\* A voting_powers table: HashMap<(Address, BlockHeight), FractionalVotingPower>
\* holding an entry for the pairs in `present`.
VotingPowers(present, power) == [k \in present |-> power[k[1]]]

\* The first vote for an event: calculate_new builds the tally, and the caller
\* stores it under `keys` when it is Ok.
CalculateNew ==
    /\ store = {}
    /\ \E seen_by \in Votes, present \in SUBSET (Address \X Heights),
          power \in [Address -> Powers] :
          LET r == calculate_new(seen_by, VotingPowers(present, power))
          IN /\ res' = Outcome("calculate_new", NoTally, EmptyMap, r)
             /\ store' = IF r.ok THEN {r.tally} ELSE store
    /\ UNCHANGED <<signers, deduped, cons_store, cres, host, kv, vres>>

\* A later vote for an event that has a tally: calculate_updated reads the
\* stored tally and returns the post-tally with the changed keys, which the
\* caller stores when it is Ok.
CalculateUpdated ==
    /\ store # {}
    /\ \E vote_info \in VoteInfo :
          LET r == calculate_updated(store, vote_info)
              pre == IF store = {} THEN NoTally ELSE CHOOSE t \in store : TRUE
          IN /\ res' = Outcome("calculate_updated", pre, vote_info, r)
             /\ store' = IF r.ok THEN {r.tally} ELSE store
    /\ UNCHANGED <<signers, deduped, cons_store, cres, host, kv, vres>>

\* Storage before the first vote, nothing computed yet.
\* No call of a ValidationContext operation is on record, and no call at all.
NoContextCall == cres.op = "none" /\ vres.op = "none"
FirstCall == res = NoOutcome /\ NoContextCall

Init ==
    /\ store = {}
    /\ res = NoOutcome
    /\ signers = {}
    /\ deduped = EmptyMap
    /\ cons_store = EmptyMap
    /\ cres = [op |-> "none"]
    /\ host = NoHost
    /\ kv = EmptyMap
    /\ vres = NoCall

Next == CalculateNew \/ CalculateUpdated

Spec == Init /\ [][Next]_vars

\* Any Borsh-decodable Tally may sit under `keys` when calculate_updated reads
\* it: validate_update is the only validity predicate of the transition.
StoredTally == [voting_power : Powers, seen_by : Votes, seen : BOOLEAN]

InitStored ==
    /\ store \in {{}} \cup {{t} : t \in StoredTally}
    /\ res = NoOutcome
    /\ signers = {}
    /\ deduped = EmptyMap
    /\ cons_store = EmptyMap
    /\ cres = [op |-> "none"]
    /\ host = NoHost
    /\ kv = EmptyMap
    /\ vres = NoCall

SpecStored == InitStored /\ [][Next]_vars

----------------------------------------------------------------------------
(* Vote tally engine: properties                                           *)

Updated == res.op = "calculate_updated"
Accepted == Updated /\ res.ok
PreVoters == DOMAIN res.pre.seen_by
PostVoters == DOMAIN res.post.seen_by
NewVoters == DOMAIN res.vote_info

\* The sum of the powers the voters in S carry in vote info vi.
RECURSIVE PowerOf(_, _)
PowerOf(vi, S) ==
    IF S = {} THEN 0
    ELSE LET a == CHOOSE x \in S : TRUE IN vi[a].power + PowerOf(vi, S \ {a})

\* C1: `seen` is latching.  In every step the stored tally keeps seen = true
\* once it has it, and every tally a calculate_updated step returns for a
\* pre-state with seen = true has seen = true: a step whose calculated tally
\* has seen = false there returns an error and leaves the stored tally.
C1_SeenLatches ==
    [][/\ \A t \in store : t.seen => (store' # {} /\ \A u \in store' : u.seen)
       /\ (res'.op = "calculate_updated" /\ res'.pre.seen)
            => IF 3 * (res'.pre.voting_power
                       + PowerOf(res'.vote_info, DOMAIN res'.vote_info))
                  > 2 * Den
               THEN res'.ok => res'.post.seen
               ELSE ~res'.ok /\ store' = store]_vars

\* A tally with seen = true was updated with new voters and is still seen.
C1_Witness ==
    /\ Accepted /\ res.pre.seen /\ res.post.seen /\ NewVoters # {}
    /\ store = {res.post}

\* A step that would have taken seen from true to false was rejected.
C1_RejectedWitness ==
    Updated /\ res.pre.seen /\ ~res.ok /\ res.err = "Tally seen changed"

\* C2: every transition pre -> post that calculate_updated accepts keeps the
\* voters, does not lower the voting power and keeps seen = true.
C2_MonotoneTransition ==
    Accepted =>
        /\ PreVoters \subseteq PostVoters
        /\ res.post.voting_power >= res.pre.voting_power
        /\ res.pre.seen => res.post.seen

\* An accepted transition that added a voter and raised the voting power of a
\* tally that was already seen.
C2_Witness ==
    /\ Accepted /\ res.pre.seen
    /\ PreVoters # PostVoters /\ PreVoters # {}
    /\ res.post.voting_power > res.pre.voting_power

\* C3: in every tally calculate_new produces, and in every tally reached from
\* it by accepted calculate_updated steps, seen is true exactly when the
\* voting power is strictly greater than 2/3.
C3_SeenIffQuorum ==
    /\ \A t \in store : t.seen <=> 3 * t.voting_power > 2 * Den
    /\ res.ok => (res.post.seen <=> 3 * res.post.voting_power > 2 * Den)

\* An update brought the voting power to exactly 2/3, and seen is false.
C3_Witness ==
    /\ Accepted /\ NewVoters # {}
    /\ 3 * res.post.voting_power = 2 * Den /\ ~res.post.seen
    /\ store = {res.post}

\* C4 as stated: every accepted calculate_updated step returns a tally whose
\* voters are a strict superset of the voters of the tally it started from.
C4_StrictSuperset ==
    Accepted => (PreVoters \subseteq PostVoters /\ PreVoters # PostVoters)

\* C4 amended: the voters of the returned tally are the voters of the
\* pre-tally and those of vote_info, a strict superset exactly when vote_info
\* names a voter; a step with no voters is accepted exactly when the voting
\* power is not above 2/3, and returns the tally it read.
C4_Superset ==
    Updated =>
        /\ res.ok => /\ PostVoters = PreVoters \cup NewVoters
                     /\ (PreVoters # PostVoters <=> NewVoters # {})
        /\ NewVoters = {} =>
              /\ res.ok <=> ~(3 * res.pre.voting_power > 2 * Den)
              /\ res.ok => res.post = res.pre /\ res.changed = {}

\* A step with no voters was accepted and returned the voters unchanged.
C4_Witness ==
    Accepted /\ NewVoters = {} /\ PostVoters = PreVoters /\ PreVoters # {}

\* C5 as stated: an accepted step that adds a voter raises the voting power.
C5_StrictIncrease ==
    (Accepted /\ NewVoters \ PreVoters # {})
        => res.post.voting_power > res.pre.voting_power

\* C5 amended: an accepted step that adds voters returns the pre-tally's
\* voting power plus the powers of the new voters: never less than before,
\* and more exactly when some new voter's power is not zero.
C5_Increase ==
    (Accepted /\ NewVoters \ PreVoters # {}) =>
        /\ res.post.voting_power
             = res.pre.voting_power + PowerOf(res.vote_info, NewVoters)
        /\ res.post.voting_power >= res.pre.voting_power
        /\ res.post.voting_power > res.pre.voting_power
             <=> \E a \in NewVoters : res.vote_info[a].power > 0

\* An accepted step added a voter of zero power: the voting power is the same.
C5_Witness ==
    /\ Accepted /\ NewVoters \ PreVoters # {}
    /\ \A a \in NewVoters : res.vote_info[a].power = 0
    /\ res.post.voting_power = res.pre.voting_power

\* C6: a step whose vote_info names a voter already in pre.seen_by returns
\* "Duplicate voters", at whatever height the new vote is; a step that
\* returns a tally had no such voter.
C6_DuplicateVoters ==
    Updated =>
        /\ PreVoters \cap NewVoters # {}
              => ~res.ok /\ res.err = "Duplicate voters found"
        /\ res.ok => PreVoters \cap NewVoters = {}

\* A voter credited at one height voted again at another: rejected.
C6_Witness ==
    /\ Updated /\ ~res.ok /\ res.err = "Duplicate voters found"
    /\ \E a \in PreVoters \cap NewVoters :
          res.vote_info[a].height # res.pre.seen_by[a]
          /\ res.vote_info[a].power > 0

----------------------------------------------------------------------------
(* dedupe                                                                  *)

\* Ord on (Address, BlockHeight): lexicographic.
SignerLess(p, q) == p[1] < q[1] \/ (p[1] = q[1] /\ p[2] < q[2])

\* BTreeSet::into_iter: the elements in ascending order.
RECURSIVE into_iter(_)
into_iter(S) ==
    IF S = {} THEN <<>>
    ELSE LET least == CHOOSE p \in S : \A q \in S : p = q \/ SignerLess(p, q)
         IN <<least>> \o into_iter(S \ {least})

\* Iterator::rev
rev(seq) == [i \in 1 .. Len(seq) |-> seq[Len(seq) + 1 - i]]

\* collect::<BTreeMap<_, _>>(): of the pairs with one key, the last one
\* yielded stays in the map.
RECURSIVE collect(_)
collect(seq) ==
    IF seq = <<>> THEN EmptyMap
    ELSE LET n == Len(seq)
         IN Insert(collect(SubSeq(seq, 1, n - 1)), seq[n][1], seq[n][2])

\* dedupe without the .rev().
dedupe_forward(S) == collect(into_iter(S))

dedupe(S) == collect(rev(into_iter(S)))

Dedupe ==
    /\ \E S \in SUBSET (Address \X DedupeHeights) :
          /\ signers' = S
          /\ deduped' = dedupe(S)
    /\ UNCHANGED <<store, res, cons_store, cres, host, kv, vres>>

NextDedupe == Dedupe

SpecDedupe == Init /\ [][NextDedupe]_vars

\* C7: dedupe(S) is the map whose keys are the addresses occurring in S and
\* which maps each address to the least height it occurs with in S; dedupe
\* of the empty set is the empty map.
C7_DedupeEarliest ==
    /\ DOMAIN deduped = {p[1] : p \in signers}
    /\ \A a \in DOMAIN deduped :
          /\ <<a, deduped[a]>> \in signers
          /\ \A p \in signers : p[1] = a => deduped[a] <= p[2]
    /\ signers = {} => deduped = EmptyMap

\* Two validators with several votes each: each keeps its earliest height.
C7_Witness ==
    /\ signers = {<<1, 100>>, <<1, 101>>, <<1, 200>>,
                  <<2, 200>>, <<2, 201>>}
    /\ deduped = [a \in {1, 2} |-> IF a = 1 THEN 100 ELSE 200]

----------------------------------------------------------------------------
(* IBC ValidationContext: consensus-state searches                         *)

\* ibc::Height (revision_number, revision_height)
ConsHeights == Revisions \X (1 .. MaxConsHeight)

\* Ord on Height: by revision number, then by revision height.
HeightLess(a, b) == a[1] < b[1] \/ (a[1] = b[1] /\ a[2] < b[2])

\* Option
None == <<>>
Some(x) == <<x>>

\* What the storage calls of a search do: all succeed, iter_prefix fails, or
\* an iter_next fails.
IoOutcomes == {"ok", "iter_prefix", "iter_next"}

\* Result<Option<Box<dyn ConsensusState>>, ContextError>
Found(value) == [kind |-> "Some", value |-> value, err |-> ""]
NotFound == [kind |-> "None", value |-> "", err |-> ""]
ContextError(err) == [kind |-> "Err", value |-> "", err |-> err]

\* The orders in which the prefix iterator may yield the entries of index m:
\* each a sequence of (height, value) pairs.
Orders(m) ==
    LET n == Cardinality(DOMAIN m)
    IN {[i \in 1 .. n |-> <<f[i], m[f[i]]>>] :
          f \in {g \in [1 .. n -> DOMAIN m] :
                    \A i, j \in 1 .. n : g[i] = g[j] => i = j}}

\* The while loop of next_consensus_state keeping the first entry above the
\* target it meets.
RECURSIVE next_loop_first(_, _, _)
next_loop_first(entries, height, lowest_height_value) ==
    IF entries = <<>> THEN lowest_height_value
    ELSE LET consensus_height == Head(entries)[1]
             value == Head(entries)[2]
         IN next_loop_first(Tail(entries), height,
                IF HeightLess(height, consensus_height)
                   /\ lowest_height_value = None
                THEN Some(<<consensus_height, value>>)
                ELSE lowest_height_value)

\* The while loop of next_consensus_state.
RECURSIVE next_loop(_, _, _)
next_loop(entries, height, lowest_height_value) ==
    IF entries = <<>> THEN lowest_height_value
    ELSE LET consensus_height == Head(entries)[1]
             value == Head(entries)[2]
         IN next_loop(Tail(entries), height,
                IF HeightLess(height, consensus_height)
                THEN IF lowest_height_value = None
                     THEN Some(<<consensus_height, value>>)
                     ELSE IF HeightLess(consensus_height,
                                        lowest_height_value[1][1])
                          THEN Some(<<consensus_height, value>>)
                          ELSE lowest_height_value
                ELSE lowest_height_value)

\* The while loop of prev_consensus_state with <= where the code has <.
RECURSIVE prev_loop_inclusive(_, _, _)
prev_loop_inclusive(entries, height, highest_height_value) ==
    IF entries = <<>> THEN highest_height_value
    ELSE LET consensus_height == Head(entries)[1]
             value == Head(entries)[2]
         IN prev_loop_inclusive(Tail(entries), height,
                IF ~HeightLess(height, consensus_height)
                THEN IF highest_height_value = None
                     THEN Some(<<consensus_height, value>>)
                     ELSE IF HeightLess(highest_height_value[1][1],
                                        consensus_height)
                          THEN Some(<<consensus_height, value>>)
                          ELSE highest_height_value
                ELSE highest_height_value)

\* The while loop of prev_consensus_state.
RECURSIVE prev_loop(_, _, _)
prev_loop(entries, height, highest_height_value) ==
    IF entries = <<>> THEN highest_height_value
    ELSE LET consensus_height == Head(entries)[1]
             value == Head(entries)[2]
         IN prev_loop(Tail(entries), height,
                IF HeightLess(consensus_height, height)
                THEN IF highest_height_value = None
                     THEN Some(<<consensus_height, value>>)
                     ELSE IF HeightLess(highest_height_value[1][1],
                                        consensus_height)
                          THEN Some(<<consensus_height, value>>)
                          ELSE highest_height_value
                ELSE highest_height_value)

\* The end of both searches: decode the selected value, or None.
decode_selected(selected, decodes) ==
    IF selected = None THEN NotFound
    ELSE IF ~decodes THEN ContextError("Decode")
    ELSE Found(selected[1][2])

next_consensus_state(entries, height, io, decodes) ==
    IF io = "iter_prefix"
    THEN ContextError("Reading the consensus state failed")
    ELSE IF io = "iter_next"
    THEN ContextError("Iterating consensus states failed")
    ELSE decode_selected(next_loop(entries, height, None), decodes)

prev_consensus_state(entries, height, io, decodes) ==
    IF io = "iter_prefix"
    THEN ContextError("Reading the consensus state failed")
    ELSE IF io = "iter_next"
    THEN ContextError("Iterating consensus states failed")
    ELSE decode_selected(prev_loop(entries, height, None), decodes)

\* The record kept of the last search.
Search(op, height, io, decodes, result) ==
    [op |-> op, height |-> height, io |-> io, decodes |-> decodes,
     result |-> result]

\* One search of the client's index, which it does not change.
NextConsensusState ==
    /\ FirstCall
    /\ \E height \in ConsHeights, entries \in Orders(cons_store),
          io \in IoOutcomes, decodes \in BOOLEAN :
          cres' = Search("next_consensus_state", height, io, decodes,
                     next_consensus_state(entries, height, io, decodes))
    /\ UNCHANGED <<store, res, signers, deduped, cons_store, host, kv, vres>>

PrevConsensusState ==
    /\ FirstCall
    /\ \E height \in ConsHeights, entries \in Orders(cons_store),
          io \in IoOutcomes, decodes \in BOOLEAN :
          cres' = Search("prev_consensus_state", height, io, decodes,
                     prev_consensus_state(entries, height, io, decodes))
    /\ UNCHANGED <<store, res, signers, deduped, cons_store, host, kv, vres>>

\* The consensus states the IBC handler has stored for the client: at most
\* one per height.
ConsIndex ==
    UNION {[S -> ConsValues] :
             S \in {T \in SUBSET ConsHeights : Cardinality(T) <= MaxEntries}}

InitConsensus ==
    /\ store = {}
    /\ res = NoOutcome
    /\ signers = {}
    /\ deduped = EmptyMap
    /\ cons_store \in ConsIndex
    /\ cres = [op |-> "none"]
    /\ host = NoHost
    /\ kv = EmptyMap
    /\ vres = NoCall

NextConsensus == NextConsensusState \/ PrevConsensusState

SpecConsensus == InitConsensus /\ [][NextConsensus]_vars

\* The stored heights above and below the target of the last search.
Above == {h \in DOMAIN cons_store :
            \/ h[1] > cres.height[1]
            \/ (h[1] = cres.height[1] /\ h[2] > cres.height[2])}
Below == {h \in DOMAIN cons_store :
            \/ h[1] < cres.height[1]
            \/ (h[1] = cres.height[1] /\ h[2] < cres.height[2])}

\* The least and the greatest height of a non-empty set of heights.
Least(S) ==
    CHOOSE h \in S : \A g \in S :
        h = g \/ h[1] < g[1] \/ (h[1] = g[1] /\ h[2] < g[2])
Greatest(S) ==
    CHOOSE h \in S : \A g \in S :
        h = g \/ h[1] > g[1] \/ (h[1] = g[1] /\ h[2] > g[2])

\* C9: whatever the iteration order, next_consensus_state whose storage
\* calls succeed returns None exactly when no stored height is above the
\* target, and otherwise selects the value stored at the least height above
\* it (returned when it decodes); it fails only when a storage call or the
\* decoding fails.
C9_NextIsLeastAbove ==
    cres.op = "next_consensus_state" =>
        /\ cres.result.kind = "None" <=> (cres.io = "ok" /\ Above = {})
        /\ cres.result.kind = "Some"
             <=> (cres.io = "ok" /\ Above # {} /\ cres.decodes)
        /\ cres.result.kind = "Some"
             => cres.result.value = cons_store[Least(Above)]

\* The target is stored, with two entries above it: the search returns the
\* nearest above, which holds another value than the target's and than the
\* farther one's.
C9_Witness ==
    /\ cres.op = "next_consensus_state" /\ cres.result.kind = "Some"
    /\ cres.height \in DOMAIN cons_store
    /\ Cardinality(Above) >= 2
    /\ cres.result.value = cons_store[Least(Above)]
    /\ cons_store[Least(Above)] # cons_store[cres.height]
    /\ cons_store[Least(Above)] # cons_store[Greatest(Above)]

\* C10: whatever the iteration order, prev_consensus_state whose storage
\* calls succeed returns None exactly when no stored height is below the
\* target, and otherwise selects the value stored at the greatest height
\* below it (returned when it decodes); it fails only when a storage call or
\* the decoding fails.
C10_PrevIsGreatestBelow ==
    cres.op = "prev_consensus_state" =>
        /\ cres.result.kind = "None" <=> (cres.io = "ok" /\ Below = {})
        /\ cres.result.kind = "Some"
             <=> (cres.io = "ok" /\ Below # {} /\ cres.decodes)
        /\ cres.result.kind = "Some"
             => cres.result.value = cons_store[Greatest(Below)]

\* The target is stored, with two entries below it: the search returns the
\* nearest below, which holds another value than the target's and than the
\* farther one's.
C10_Witness ==
    /\ cres.op = "prev_consensus_state" /\ cres.result.kind = "Some"
    /\ cres.height \in DOMAIN cons_store
    /\ Cardinality(Below) >= 2
    /\ cres.result.value = cons_store[Greatest(Below)]
    /\ cons_store[Greatest(Below)] # cons_store[cres.height]
    /\ cons_store[Greatest(Below)] # cons_store[Least(Below)]

-----------------------------------------------------------------------------
(* calculate_new on arbitrary tables of voting powers                      *)

\* voting_powers: HashMap<(Address, BlockHeight), FractionalVotingPower>,
\* any table over the validators and heights.
VotingPowerTables ==
    UNION {[S -> Powers] : S \in SUBSET (Address \X Heights)}

\* The arguments of a call of calculate_new that has not run yet.
NewInput(seen_by, voting_powers) ==
    [op |-> "new_input", seen_by |-> seen_by, voting_powers |-> voting_powers]

\* calculate_new applied to the arguments, which stay on record with what it
\* returned.
CalculateNewOf ==
    /\ res.op = "new_input"
    /\ LET r == calculate_new(res.seen_by, res.voting_powers)
       IN res' = [op |-> "calculate_new", seen_by |-> res.seen_by,
                  voting_powers |-> res.voting_powers,
                  ok |-> r.ok, err |-> r.err, tally |-> r.tally]
    /\ UNCHANGED <<store, signers, deduped, cons_store, cres, host, kv, vres>>

InitNew ==
    /\ store = {}
    /\ res \in {NewInput(seen_by, voting_powers) :
                  seen_by \in Votes, voting_powers \in VotingPowerTables}
    /\ signers = {}
    /\ deduped = EmptyMap
    /\ cons_store = EmptyMap
    /\ cres = [op |-> "none"]
    /\ host = NoHost
    /\ kv = EmptyMap
    /\ vres = NoCall

NextNew == CalculateNewOf

SpecNew == InitNew /\ [][NextNew]_vars

\* The (validator, height) pairs seen_by names.
SeenPairs(seen_by) == {<<v, seen_by[v]>> : v \in DOMAIN seen_by}

\* The sum of a table's powers over a set of its keys.
RECURSIVE TableSum(_, _)
TableSum(table, K) ==
    IF K = {} THEN 0
    ELSE LET k == CHOOSE x \in K : TRUE
         IN table[k] + TableSum(table, K \ {k})

\* C14: calculate_new returns an error and no tally whenever some pair of
\* seen_by has no entry under exactly that pair in voting_powers; otherwise
\* it returns a tally with seen_by unchanged and voting_power the sum of the
\* powers under exactly the pairs of seen_by.
C14_NewExactPairs ==
    res.op = "calculate_new" =>
        IF SeenPairs(res.seen_by) \subseteq DOMAIN res.voting_powers
        THEN /\ res.ok
             /\ res.tally.seen_by = res.seen_by
             /\ res.tally.voting_power
                  = TableSum(res.voting_powers, SeenPairs(res.seen_by))
        ELSE /\ ~res.ok
             /\ res.err = "voting power was not provided for validator"
             /\ res.tally = NoTally

\* An error although the table holds the validator at the other height.
C14_Witness ==
    /\ res.op = "calculate_new" /\ ~res.ok
    /\ \E v \in DOMAIN res.seen_by :
          /\ <<v, res.seen_by[v]>> \notin DOMAIN res.voting_powers
          /\ \E h \in Heights : <<v, h>> \in DOMAIN res.voting_powers

\* A sum that leaves out an entry of the table at another height.
C14_SumWitness ==
    /\ res.op = "calculate_new" /\ res.ok
    /\ DOMAIN res.seen_by = Address
    /\ DOMAIN res.voting_powers = Address \X Heights
    /\ \E k \in DOMAIN res.voting_powers \ SeenPairs(res.seen_by) :
          res.voting_powers[k] > 0
    /\ res.tally.voting_power > 0

-----------------------------------------------------------------------------
(* Range of the tallied voting power                                       *)

\* C13: every tally reached by calculate_new followed by successful
\* calculate_updated steps, each supplied power being in [0,1], has a
\* voting_power in [0,1]: its numerator is between 0 and Den.
C13_PowerInUnitInterval ==
    \A t \in store : 0 <= t.voting_power /\ t.voting_power <= Den

-----------------------------------------------------------------------------
(* The last check of validate_update                                       *)

\* C20: validate_update never returns the error "Tally is not seen even
\* though new voting_power is enough".
C20_QuorumBranchUnreachable ==
    res.err # "Tally is not seen even though new voting_power is enough"

-----------------------------------------------------------------------------
(* validate_self_client                                                    *)

\* ChainId: a name with or without a revision suffix "-n".
ChainIds == [name : ChainNames, epoch : {None} \cup {Some(e) : e \in Epochs}]

\* ChainId::to_string: the identifier with its suffix, if it has one.
to_string(chain_id) == <<chain_id.name, chain_id.epoch>>

\* ChainId::version: the revision number of the suffix, 0 without one.
version(chain_id) ==
    IF chain_id.epoch = None THEN 0 ELSE chain_id.epoch[1]

\* TrustThreshold: a fraction numerator/denominator in [0,1].
TrustLevels ==
    UNION {[numerator : 0 .. d, denominator : {d}] :
             d \in 1 .. MaxTrustDenominator}

\* TrustThreshold::ONE_THIRD
ONE_THIRD == [numerator |-> 1, denominator |-> 3]

\* The Any given to validate_self_client: bytes that do not decode, a client
\* state of another kind, or a Tendermint client state.
TmClientStates ==
    [kind : {"tendermint"}, is_frozen : BOOLEAN, chain_id : ChainIds,
     latest_height : 0 .. MaxBlockHeight, proof_specs : ProofSpecs,
     trust_level : TrustLevels]

AnyClientStates ==
    {[kind |-> "undecodable"], [kind |-> "not_tendermint"]} \cup TmClientStates

\* The host chain validate_self_client reads: get_chain_id, get_height,
\* get_proof_specs.
Hosts ==
    [chain_id : {to_string(c) : c \in {d \in ChainIds : d.name = "namada"}},
     height : 1 .. MaxBlockHeight, proof_specs : ProofSpecs,
     headers : {EmptyMap}]

\* Whether get_chain_id and get_height succeed.
SelfIo == [get_chain_id : BOOLEAN, get_height : BOOLEAN]

\* Result<(), ContextError>
SelfOk == [kind |-> "Ok", description |-> ""]
ClientErrorOther(description) ==
    [kind |-> "ClientError::Other", description |-> description]
ConnectionErrorOther(description) ==
    [kind |-> "ConnectionError::Other", description |-> description]

\* The decode failure reported as a client error.
decode_error_as_client == ClientErrorOther("Decoding the client state failed")

\* decode_client_state(..).map_err(..)
decode_error == ConnectionErrorOther("Decoding the client state failed")

\* A height check that lets a client state at the host's own height pass.
height_check_allows_equal(client_state, height) ==
    client_state.latest_height > height

\* client_state.latest_height().revision_height() >= height.0
height_check_fails(client_state, height) ==
    client_state.latest_height >= height

\* A trust-level check that compares the fractions as rationals.
trust_level_check_rational(client_state) ==
    client_state.trust_level.numerator * ONE_THIRD.denominator
        < ONE_THIRD.numerator * client_state.trust_level.denominator

\* The trust-level check: both fractions are divided as integers.
trust_level_check_fails(client_state) ==
    LET trust_level == client_state.trust_level.numerator
                         \div client_state.trust_level.denominator
        min_level == ONE_THIRD.numerator \div ONE_THIRD.denominator
    IN trust_level < min_level

\* validate_self_client comparing the chain IDs before it looks at the frozen
\* flag.
validate_self_client_chain_id_first(any, h, io) ==
    IF any.kind = "undecodable" THEN decode_error
    ELSE IF any.kind # "tendermint"
         THEN ConnectionErrorOther("The client state is not for Tendermint")
    ELSE IF ~io.get_chain_id
         THEN ConnectionErrorOther("Getting the chain ID failed")
    ELSE IF to_string(any.chain_id) # h.chain_id
         THEN ClientErrorOther("The chain ID mismatched")
    ELSE IF any.is_frozen THEN ClientErrorOther("The client is frozen")
    ELSE IF version(any.chain_id) # 0
         THEN ClientErrorOther("The chain ID revision is not zero")
    ELSE IF ~io.get_height
         THEN ConnectionErrorOther("Getting the block height failed")
    ELSE IF height_check_fails(any, h.height)
         THEN ClientErrorOther("The height of the client state is higher")
    ELSE IF any.proof_specs # h.proof_specs
         THEN ClientErrorOther("The proof specs mismatched")
    ELSE IF trust_level_check_fails(any)
         THEN ClientErrorOther("The trust threshold is less 1/3")
    ELSE SelfOk

validate_self_client(any, h, io) ==
    IF any.kind = "undecodable" THEN decode_error
    ELSE IF any.kind # "tendermint"
         THEN ConnectionErrorOther("The client state is not for Tendermint")
    ELSE IF any.is_frozen THEN ClientErrorOther("The client is frozen")
    ELSE IF ~io.get_chain_id
         THEN ConnectionErrorOther("Getting the chain ID failed")
    ELSE IF to_string(any.chain_id) # h.chain_id
         THEN ClientErrorOther("The chain ID mismatched")
    ELSE IF version(any.chain_id) # 0
         THEN ClientErrorOther("The chain ID revision is not zero")
    ELSE IF ~io.get_height
         THEN ConnectionErrorOther("Getting the block height failed")
    ELSE IF height_check_fails(any, h.height)
         THEN ClientErrorOther("The height of the client state is higher")
    ELSE IF any.proof_specs # h.proof_specs
         THEN ClientErrorOther("The proof specs mismatched")
    ELSE IF trust_level_check_fails(any)
         THEN ClientErrorOther("The trust threshold is less 1/3")
    ELSE SelfOk

\* One call of validate_self_client on the host, kept with its arguments.
ValidateSelfClient ==
    /\ FirstCall
    /\ \E any \in AnyClientStates, io \in SelfIo :
          vres' = [op |-> "validate_self_client", any |-> any, io |-> io,
                   result |-> validate_self_client(any, host, io)]
    /\ UNCHANGED <<store, res, signers, deduped, cons_store, cres, host, kv>>

InitSelfClient ==
    /\ store = {}
    /\ res = NoOutcome
    /\ signers = {}
    /\ deduped = EmptyMap
    /\ cons_store = EmptyMap
    /\ cres = [op |-> "none"]
    /\ host \in Hosts
    /\ kv = EmptyMap
    /\ vres = NoCall

NextSelfClient == ValidateSelfClient

SpecSelfClient == InitSelfClient /\ [][NextSelfClient]_vars

\* A call of validate_self_client has returned.
SelfValidated == vres.op = "validate_self_client"

\* C11: whenever validate_self_client returns Ok, the state given is a
\* Tendermint client state, not frozen, whose chain ID string is the host's,
\* whose chain ID version is 0, whose latest revision height is strictly
\* below the host height, and whose proof specs are the host's.
C11_OkImpliesChecks ==
    (SelfValidated /\ vres.result.kind = "Ok") =>
        /\ vres.any.kind = "tendermint"
        /\ ~vres.any.is_frozen
        /\ to_string(vres.any.chain_id) = host.chain_id
        /\ version(vres.any.chain_id) = 0
        /\ vres.any.latest_height < host.height
        /\ vres.any.proof_specs = host.proof_specs

\* Accepted one block below the host height.
C11_Witness ==
    /\ SelfValidated /\ vres.result.kind = "Ok"
    /\ vres.any.latest_height + 1 = host.height

\* Rejected at the host height, every earlier check passing.
C11_EqualRejectedWitness ==
    /\ SelfValidated
    /\ vres.result
         = ClientErrorOther("The height of the client state is higher")
    /\ vres.any.latest_height = host.height

\* The trust level of the state given is below 1/3 as a rational.
BelowOneThird(trust_level) ==
    3 * trust_level.numerator < trust_level.denominator

\* C12: validate_self_client accepts a state only when its trust level is at
\* least 1/3: a state whose trust level is below 1/3 is never answered Ok.
C12_TrustLevelGate ==
    (SelfValidated /\ vres.any.kind = "tendermint"
       /\ BelowOneThird(vres.any.trust_level))
        => vres.result.kind # "Ok"

\* C15 as stated: every failure of validate_self_client is a Client `Other`
\* error.
C15_AllClientOther ==
    (SelfValidated /\ vres.result.kind # "Ok")
        => vres.result.kind = "ClientError::Other"

\* The calls that end at one of the wrapped causes: the state does not
\* decode, is not a Tendermint state, or a read of the host fails at the
\* point where the call makes it.
ConnectionCause ==
    \/ vres.any.kind # "tendermint"
    \/ /\ ~vres.any.is_frozen
       /\ ~vres.io.get_chain_id
    \/ /\ ~vres.any.is_frozen
       /\ to_string(vres.any.chain_id) = host.chain_id
       /\ version(vres.any.chain_id) = 0
       /\ ~vres.io.get_height

\* C15, amended: every failure of validate_self_client is an `Other` error
\* with a description, of the connection layer when the state does not
\* decode, is not a Tendermint state, or the host chain ID or height cannot
\* be read, and of the client layer for every other failure.
C15_ErrorLayers ==
    (SelfValidated /\ vres.result.kind # "Ok") =>
        /\ vres.result.description # ""
        /\ IF ConnectionCause
           THEN vres.result.kind = "ConnectionError::Other"
           ELSE vres.result.kind = "ClientError::Other"

\* An undecodable state, reported by the connection layer.
C15_Witness ==
    /\ SelfValidated
    /\ vres.any.kind = "undecodable"
    /\ vres.result.kind = "ConnectionError::Other"

\* A frozen client, reported by the client layer.
C15_ClientWitness ==
    /\ SelfValidated
    /\ vres.any.kind = "tendermint" /\ vres.any.is_frozen
    /\ vres.result = ClientErrorOther("The client is frozen")

-----------------------------------------------------------------------------
(* Packet commitments, receipts and acknowledgements                       *)

\* CommitmentPath / ReceiptPath / AckPath: port, channel, sequence.
PacketPaths ==
    [port_id : {"transfer"}, channel_id : ChannelIds,
     sequence : 1 .. MaxSequence]

\* Path::Commitment(path).to_string(), Path::Receipt(..), Path::Ack(..): the
\* ICS-24 path, segment by segment.
commitment_path(path) ==
    <<"commitments", "ports", path.port_id, "channels", path.channel_id,
      "sequences", path.sequence>>
receipt_path(path) ==
    <<"receipts", "ports", path.port_id, "channels", path.channel_id,
      "sequences", path.sequence>>
ack_path(path) ==
    <<"acks", "ports", path.port_id, "channels", path.channel_id,
      "sequences", path.sequence>>

\* storage::ibc_key: the path under the IBC prefix.
ibc_key(path_string) == <<"ibc">> \o path_string

\* storage::port_channel_sequence_id: the port, channel and sequence
\* segments of a key.
port_channel_sequence_id(key) == <<key[4], key[6], key[8]>>

PacketKeys ==
    {ibc_key(commitment_path(p)) : p \in PacketPaths}
    \cup {ibc_key(receipt_path(p)) : p \in PacketPaths}
    \cup {ibc_key(ack_path(p)) : p \in PacketPaths}

\* self.ctx.read(&key): Ok(Some(value)), Ok(None) or Err(_).
ReadIo == {"ok", "err"}
read(kvs, key, io) ==
    IF io = "err" THEN [ok |-> FALSE, value |-> None]
    ELSE IF key \in DOMAIN kvs THEN [ok |-> TRUE, value |-> Some(kvs[key])]
    ELSE [ok |-> TRUE, value |-> None]

\* value.into(): the stored bytes as a PacketCommitment or an
\* AcknowledgementCommitment.
PacketCommitment(bytes) == [type |-> "PacketCommitment", bytes |-> bytes]
AcknowledgementCommitment(bytes) ==
    [type |-> "AcknowledgementCommitment", bytes |-> bytes]

\* Result<_, ContextError> of the packet reads.
PacketOk(value) == [kind |-> "Ok", value |-> value]
PacketNotFound(variant, sequence) ==
    [kind |-> "PacketError", variant |-> variant, sequence |-> sequence]
PacketChannelOther(description) ==
    [kind |-> "PacketError", variant |-> "Channel(ChannelError::Other)",
     description |-> description]

get_packet_commitment(kvs, path, io) ==
    LET key == ibc_key(commitment_path(path))
        r == read(kvs, key, io)
    IN IF r.ok /\ r.value # None
       THEN PacketOk(PacketCommitment(r.value[1]))
       ELSE IF r.ok
       THEN PacketNotFound("PacketCommitmentNotFound",
                           port_channel_sequence_id(key)[3])
       ELSE PacketChannelOther("Reading commitment failed")

\* A receipt read that answers with the stored bytes.
get_packet_receipt_of_bytes(kvs, path, io) ==
    LET key == ibc_key(receipt_path(path))
        r == read(kvs, key, io)
    IN IF r.ok /\ r.value # None
       THEN PacketOk(r.value[1])
       ELSE IF r.ok
       THEN PacketNotFound("PacketReceiptNotFound",
                           port_channel_sequence_id(key)[3])
       ELSE PacketChannelOther("Reading the receipt failed")

get_packet_receipt(kvs, path, io) ==
    LET key == ibc_key(receipt_path(path))
        r == read(kvs, key, io)
    IN IF r.ok /\ r.value # None
       THEN PacketOk("Receipt::Ok")
       ELSE IF r.ok
       THEN PacketNotFound("PacketReceiptNotFound",
                           port_channel_sequence_id(key)[3])
       ELSE PacketChannelOther("Reading the receipt failed")

get_packet_acknowledgement(kvs, path, io) ==
    LET key == ibc_key(ack_path(path))
        r == read(kvs, key, io)
    IN IF r.ok /\ r.value # None
       THEN PacketOk(AcknowledgementCommitment(r.value[1]))
       ELSE IF r.ok
       THEN PacketNotFound("PacketAcknowledgementNotFound",
                           port_channel_sequence_id(key)[3])
       ELSE PacketChannelOther("Reading the ack commitment failed")

\* One packet read, kept with its path and the outcome of the store read.
PacketCall(op, path, io, result) ==
    [op |-> op, path |-> path, io |-> io, result |-> result]

GetPacketCommitment ==
    /\ FirstCall
    /\ \E path \in PacketPaths, io \in ReadIo :
          vres' = PacketCall("get_packet_commitment", path, io,
                             get_packet_commitment(kv, path, io))
    /\ UNCHANGED <<store, res, signers, deduped, cons_store, cres, host, kv>>

GetPacketReceipt ==
    /\ FirstCall
    /\ \E path \in PacketPaths, io \in ReadIo :
          vres' = PacketCall("get_packet_receipt", path, io,
                             get_packet_receipt(kv, path, io))
    /\ UNCHANGED <<store, res, signers, deduped, cons_store, cres, host, kv>>

GetPacketAcknowledgement ==
    /\ FirstCall
    /\ \E path \in PacketPaths, io \in ReadIo :
          vres' = PacketCall("get_packet_acknowledgement", path, io,
                             get_packet_acknowledgement(kv, path, io))
    /\ UNCHANGED <<store, res, signers, deduped, cons_store, cres, host, kv>>

\* Storage holding any few packet keys.
PacketStores ==
    UNION {[K -> Bytes] :
             K \in {S \in SUBSET PacketKeys : Cardinality(S) <= MaxKeys}}

InitPackets ==
    /\ store = {}
    /\ res = NoOutcome
    /\ signers = {}
    /\ deduped = EmptyMap
    /\ cons_store = EmptyMap
    /\ cres = [op |-> "none"]
    /\ host = NoHost
    /\ kv \in PacketStores
    /\ vres = NoCall

NextPackets ==
    GetPacketCommitment \/ GetPacketReceipt \/ GetPacketAcknowledgement

SpecPackets == InitPackets /\ [][NextPackets]_vars

\* The key a packet read reads, and its own not-found error.
PacketOps ==
    {"get_packet_commitment", "get_packet_receipt",
     "get_packet_acknowledgement"}

KeyRead ==
    <<"ibc",
      CASE vres.op = "get_packet_commitment" -> "commitments"
        [] vres.op = "get_packet_receipt" -> "receipts"
        [] vres.op = "get_packet_acknowledgement" -> "acks",
      "ports", vres.path.port_id, "channels", vres.path.channel_id,
      "sequences", vres.path.sequence>>

OwnNotFound ==
    CASE vres.op = "get_packet_commitment" -> "PacketCommitmentNotFound"
      [] vres.op = "get_packet_receipt" -> "PacketReceiptNotFound"
      [] vres.op = "get_packet_acknowledgement"
           -> "PacketAcknowledgementNotFound"

\* C16: each packet read is determined by the one store read of its path's
\* key: a present value gives Ok (the stored bytes for a commitment or an
\* acknowledgement, Receipt::Ok for a receipt whatever is stored), an absent
\* value gives the operation's own not-found error with the sequence of the
\* path, and a failed read gives a channel error wrapped as a packet error.
C16_PacketReads ==
    vres.op \in PacketOps =>
        IF vres.io = "err"
        THEN /\ vres.result.kind = "PacketError"
             /\ vres.result.variant = "Channel(ChannelError::Other)"
        ELSE IF KeyRead \in DOMAIN kv
        THEN /\ vres.result.kind = "Ok"
             /\ IF vres.op = "get_packet_receipt"
                THEN vres.result.value = "Receipt::Ok"
                ELSE vres.result.value.bytes = kv[KeyRead]
        ELSE /\ vres.result.kind = "PacketError"
             /\ vres.result.variant = OwnNotFound
             /\ vres.result.sequence = vres.path.sequence

\* A stored receipt answered Receipt::Ok.
C16_Witness ==
    /\ vres.op = "get_packet_receipt"
    /\ KeyRead \in DOMAIN kv
    /\ vres.result = PacketOk("Receipt::Ok")

\* An acknowledgement not found although the commitment of the same path is
\* stored.
C16_NotFoundWitness ==
    /\ vres.op = "get_packet_acknowledgement"
    /\ ibc_key(commitment_path(vres.path)) \in DOMAIN kv
    /\ vres.result.kind = "PacketError"
    /\ vres.result.variant = "PacketAcknowledgementNotFound"
    /\ vres.result.sequence = MaxSequence

-----------------------------------------------------------------------------
(* host_consensus_state                                                    *)

\* The header of a committed block of the host chain.
Headers ==
    [hash : Hashes, time : Times, next_validators_hash : Hashes]

\* The host chain with the headers it keeps, by block height.
HeaderHosts ==
    [chain_id : {to_string([name |-> "namada", epoch |-> None])},
     height : {MaxBlockHeight}, proof_specs : {"ics23"},
     headers : UNION {[S -> Headers] : S \in SUBSET (1 .. MaxBlockHeight)}]

\* Height: revision number and revision height.
HostHeights ==
    [revision_number : Revisions, revision_height : 1 .. MaxBlockHeight]

\* self.ctx.get_header(height): Ok(Some(header)), Ok(None) or Err(_).
get_header(h, block_height, io) ==
    IF io = "err" THEN [ok |-> FALSE, value |-> None]
    ELSE IF block_height \in DOMAIN h.headers
         THEN [ok |-> TRUE, value |-> Some(h.headers[block_height])]
    ELSE [ok |-> TRUE, value |-> None]

\* header.hash.to_vec().into(), header.time.try_into(),
\* header.next_validators_hash.try_into(): the header's fields as the types
\* of a Tendermint consensus state.
CommitmentRoot(hash) == [root |-> hash]
TmTime(time) == [tm_time |-> time]
TmHash(hash) == [tm_hash |-> hash]

\* TmConsensusState::new
TmConsensusState(commitment_root, time, next_validators_hash) ==
    [root |-> commitment_root, timestamp |-> time,
     next_validators_hash |-> next_validators_hash]

\* The block height read from the revision number of the argument.
block_height_of_revision(height) == height.revision_number

\* BlockHeight(height.revision_height())
block_height_of(height) == height.revision_height

host_consensus_state(h, height, io) ==
    LET r == get_header(h, block_height_of(height), io)
    IN IF ~r.ok
       THEN ClientErrorOther("Getting the header on this chain failed")
       ELSE IF r.value = None THEN ClientErrorOther("No host header")
       ELSE LET header == r.value[1]
            IN [kind |-> "Ok",
                value |-> TmConsensusState(
                              CommitmentRoot(header.hash),
                              TmTime(header.time),
                              TmHash(header.next_validators_hash))]

\* One call of host_consensus_state, kept with its arguments.
HostConsensusState ==
    /\ FirstCall
    /\ \E height \in HostHeights, io \in ReadIo :
          vres' = [op |-> "host_consensus_state", height |-> height,
                   io |-> io,
                   result |-> host_consensus_state(host, height, io)]
    /\ UNCHANGED <<store, res, signers, deduped, cons_store, cres, host, kv>>

InitHost ==
    /\ store = {}
    /\ res = NoOutcome
    /\ signers = {}
    /\ deduped = EmptyMap
    /\ cons_store = EmptyMap
    /\ cres = [op |-> "none"]
    /\ host \in HeaderHosts
    /\ kv = EmptyMap
    /\ vres = NoCall

NextHost == HostConsensusState

SpecHost == InitHost /\ [][NextHost]_vars

C17_MissingWitness ==
    /\ vres.op = "host_consensus_state"
    /\ vres.io = "ok"
    /\ host.headers # EmptyMap
    /\ vres.result = ClientErrorOther("No host header")

-----------------------------------------------------------------------------
(* client_update_time and client_update_height                             *)

\* storage::client_update_timestamp_key / client_update_height_key: one key
\* per client, whatever the height.
client_update_timestamp_key(client_id) ==
    <<"ibc", "clients", client_id, "update_timestamp">>
client_update_height_key(client_id) ==
    <<"ibc", "clients", client_id, "update_height">>

\* The bytes under an update key: an encoded time, an encoded height, or
\* bytes that decode as neither.
EncodedTimes == [enc : {"time"}, time : Times]
EncodedHeights ==
    [enc : {"height"}, revision_number : {0}, revision_height : {1, 2}]
UpdateBytes == EncodedTimes \cup EncodedHeights \cup {[enc |-> "garbage"]}

\* TmTime::decode_vec and Height::decode_vec: None stands for the Err.
time_decode_vec(value) ==
    IF value.enc = "time" THEN Some(TmTime(value.time)) ELSE None
height_decode_vec(value) ==
    IF value.enc = "height"
    THEN Some([revision_number |-> value.revision_number,
               revision_height |-> value.revision_height])
    ELSE None

\* time.into(): the Tendermint time as a Timestamp.
Timestamp(time) == [timestamp |-> time.tm_time]

\* ClientError::ClientSpecific
ClientSpecific(description) ==
    [kind |-> "ClientError::ClientSpecific", description |-> description]

\* A read of the update time that finds it only for heights of revision 0.
client_update_time_of_revision(kvs, client_id, height, io) ==
    LET key == client_update_timestamp_key(client_id)
        r == read(kvs, key, io)
    IN IF r.ok /\ r.value # None /\ height[1] = 0
       THEN LET time == time_decode_vec(r.value[1])
            IN IF time = None
               THEN ClientErrorOther("Decoding the client update time failed")
               ELSE [kind |-> "Ok", value |-> Timestamp(time[1])]
       ELSE IF r.ok
       THEN ClientSpecific("The client update time doesn't exist")
       ELSE ClientErrorOther("Reading the client update time failed")

client_update_time(kvs, client_id, height, io) ==
    LET key == client_update_timestamp_key(client_id)
        r == read(kvs, key, io)
    IN IF r.ok /\ r.value # None
       THEN LET time == time_decode_vec(r.value[1])
            IN IF time = None
               THEN ClientErrorOther("Decoding the client update time failed")
               ELSE [kind |-> "Ok", value |-> Timestamp(time[1])]
       ELSE IF r.ok
       THEN ClientSpecific("The client update time doesn't exist")
       ELSE ClientErrorOther("Reading the client update time failed")

client_update_height(kvs, client_id, height, io) ==
    LET key == client_update_height_key(client_id)
        r == read(kvs, key, io)
    IN IF r.ok /\ r.value # None
       THEN LET h == height_decode_vec(r.value[1])
            IN IF h = None
               THEN ClientErrorOther("Decoding the height failed")
               ELSE [kind |-> "Ok", value |-> h[1]]
       ELSE IF r.ok
       THEN ClientSpecific("The client update height doesn't exist")
       ELSE ClientErrorOther("Reading the client update height failed")

\* A call of client_update_time / client_update_height, kept with its
\* arguments.
UpdateCall(op, client_id, height, io, result) ==
    [op |-> op, client_id |-> client_id, height |-> height, io |-> io,
     result |-> result]

\* The two operations may be called again and again.
UpdateOps == {"client_update_time", "client_update_height"}

ClientUpdateTime ==
    /\ res = NoOutcome /\ cres.op = "none"
    /\ vres.op \in {"none"} \cup UpdateOps
    /\ \E client_id \in ClientIds, height \in ConsHeights, io \in ReadIo :
          vres' = UpdateCall("client_update_time", client_id, height, io,
                             client_update_time(kv, client_id, height, io))
    /\ UNCHANGED <<store, res, signers, deduped, cons_store, cres, host, kv>>

ClientUpdateHeight ==
    /\ res = NoOutcome /\ cres.op = "none"
    /\ vres.op \in {"none"} \cup UpdateOps
    /\ \E client_id \in ClientIds, height \in ConsHeights, io \in ReadIo :
          vres' = UpdateCall("client_update_height", client_id, height, io,
                             client_update_height(kv, client_id, height, io))
    /\ UNCHANGED <<store, res, signers, deduped, cons_store, cres, host, kv>>

\* Storage holding, for each client, an update time or none and an update
\* height or none, either of them possibly undecodable.
UpdateStores ==
    LET times == EncodedTimes \cup {[enc |-> "garbage"]}
        heights == EncodedHeights \cup {[enc |-> "garbage"]}
        keys == {client_update_timestamp_key(c) : c \in ClientIds}
                \cup {client_update_height_key(c) : c \in ClientIds}
    IN {m \in UNION {[K -> UpdateBytes] : K \in SUBSET keys} :
          \A k \in DOMAIN m :
             m[k] \in IF k[4] = "update_timestamp" THEN times ELSE heights}

InitClientUpdate ==
    /\ store = {}
    /\ res = NoOutcome
    /\ signers = {}
    /\ deduped = EmptyMap
    /\ cons_store = EmptyMap
    /\ cres = [op |-> "none"]
    /\ host = NoHost
    /\ kv \in UpdateStores
    /\ vres = NoCall

NextClientUpdate == ClientUpdateTime \/ ClientUpdateHeight

SpecClientUpdate == InitClientUpdate /\ [][NextClientUpdate]_vars

\* What the stored value alone makes of the last call.
UpdateKeyRead ==
    <<"ibc", "clients", vres.client_id,
      IF vres.op = "client_update_time" THEN "update_timestamp"
      ELSE "update_height">>

DeterminedByStore ==
    IF vres.io = "err" THEN vres.result.kind = "ClientError::Other"
    ELSE IF UpdateKeyRead \notin DOMAIN kv
    THEN vres.result.kind = "ClientError::ClientSpecific"
    ELSE LET value == kv[UpdateKeyRead]
         IN IF vres.op = "client_update_time" /\ value.enc = "time"
            THEN /\ vres.result.kind = "Ok"
                 /\ vres.result.value.timestamp = value.time
            ELSE IF vres.op = "client_update_height" /\ value.enc = "height"
            THEN /\ vres.result.kind = "Ok"
                 /\ vres.result.value.revision_number = value.revision_number
                 /\ vres.result.value.revision_height = value.revision_height
            ELSE vres.result.kind = "ClientError::Other"

\* C18: on the same storage, client_update_time and client_update_height
\* return the same result for every two height arguments: the result is what
\* the one value under the client's update key makes it, a ClientSpecific
\* error when the key is absent.
C18_HeightIgnored ==
    [][vres'.op \in UpdateOps =>
         /\ DeterminedByStore'
         /\ (vres.op = vres'.op /\ vres.client_id = vres'.client_id
               /\ vres.io = vres'.io)
              => vres'.result = vres.result]_vars

\* The stored update time returned for a height of revision 1 that is not the
\* stored update height.
C18_Witness ==
    /\ vres.op = "client_update_time"
    /\ vres.result.kind = "Ok"
    /\ vres.height[1] = 1
    /\ client_update_height_key(vres.client_id) \in DOMAIN kv
    /\ kv[client_update_height_key(vres.client_id)].enc = "height"
    /\ kv[client_update_height_key(vres.client_id)].revision_height
         # vres.height[2]

\* No update height stored for the client.
C18_AbsentWitness ==
    /\ vres.op = "client_update_height"
    /\ vres.io = "ok"
    /\ client_update_timestamp_key(vres.client_id) \in DOMAIN kv
    /\ vres.result.kind = "ClientError::ClientSpecific"

-----------------------------------------------------------------------------
(* The operations as calls: what they leave in storage                     *)

\* A calculate_updated whose post-tally is written under `keys` by the call
\* itself.
CalculateUpdatedAndWrite ==
    /\ store # {}
    /\ NoContextCall
    /\ \E vote_info \in VoteInfo :
          LET r == calculate_updated(store, vote_info)
              pre == CHOOSE t \in store : TRUE
          IN /\ res' = Outcome("calculate_updated", pre, vote_info, r)
             /\ store' = IF r.ok THEN {r.tally} ELSE store
    /\ UNCHANGED <<signers, deduped, cons_store, cres, host, kv, vres>>

\* calculate_updated alone, before its caller does anything with what it
\* returns: it reads the tally, computes, validates, logs and returns.
CalculateUpdatedOnly ==
    /\ store # {}
    /\ NoContextCall
    /\ \E vote_info \in VoteInfo :
          LET r == calculate_updated(store, vote_info)
              pre == CHOOSE t \in store : TRUE
          IN res' = Outcome("calculate_updated", pre, vote_info, r)
    /\ UNCHANGED <<store, signers, deduped, cons_store, cres, host, kv, vres>>

\* A storage with something under every kind of key the operations read: a
\* tally, two consensus states, a host with a header, a packet commitment
\* and receipt, and a client's update time and height.
StoredIndex == [h \in {<<0, 1>>, <<1, 2>>} |-> "csA"]

StoredHost ==
    [chain_id |-> to_string([name |-> "namada", epoch |-> None]),
     height |-> MaxBlockHeight, proof_specs |-> "ics23",
     headers |-> [b \in {1} |->
                    [hash |-> "hA", time |-> "t1",
                     next_validators_hash |-> "hB"]]]

StoredKeys ==
    LET path == [port_id |-> "transfer", channel_id |-> "channel-0",
                 sequence |-> 1]
        client_id == "07-tendermint-0"
    IN (ibc_key(commitment_path(path)) :> "b0")
       @@ (ibc_key(receipt_path(path)) :> "b1")
       @@ (client_update_timestamp_key(client_id)
             :> [enc |-> "time", time |-> "t1"])
       @@ (client_update_height_key(client_id)
             :> [enc |-> "height", revision_number |-> 0,
                 revision_height |-> 1])

InitCalls ==
    /\ store \in {{t} : t \in StoredTally}
    /\ res = NoOutcome
    /\ signers = {}
    /\ deduped = EmptyMap
    /\ cons_store = StoredIndex
    /\ cres = [op |-> "none"]
    /\ host = StoredHost
    /\ kv = StoredKeys
    /\ vres = NoCall

\* calculate_updated any number of times, or calls of a ValidationContext
\* operation.
NextCalls ==
    \/ CalculateUpdatedOnly
    \/ NextConsensusState
    \/ PrevConsensusState
    \/ ValidateSelfClient
    \/ GetPacketCommitment
    \/ GetPacketReceipt
    \/ GetPacketAcknowledgement
    \/ HostConsensusState
    \/ ClientUpdateTime
    \/ ClientUpdateHeight

SpecCalls == InitCalls /\ [][NextCalls]_vars

C19_ErrorWitness ==
    /\ res.op = "calculate_updated" /\ ~res.ok
    /\ store = {res.pre}

-----------------------------------------------------------------------------
(* VoteInfo::new                                                           *)

\* What a call comes to: a value returned, or the thread aborted by a panic.
Returned(value) == [kind |-> "value", value |-> value, message |-> ""]
Panicked(message) == [kind |-> "panic", value |-> EmptyMap, message |-> message]

\* VoteInfo::new: for each vote, voting_powers.get(&(address, block_height))
\* is unwrapped and inserted with the height under the address.
VoteInfo_new(votes, voting_powers) ==
    IF \E address \in DOMAIN votes :
          <<address, votes[address]>> \notin DOMAIN voting_powers
    THEN Panicked("called Option::unwrap() on a None value")
    ELSE Returned([address \in DOMAIN votes |->
                     [height |-> votes[address],
                      power |-> voting_powers[<<address, votes[address]>>]]])

\* The arguments of a call of VoteInfo::new that has not run yet.
VoteInfoInput(votes, voting_powers) ==
    [op |-> "vote_info_input", votes |-> votes,
     voting_powers |-> voting_powers]

\* VoteInfo::new applied to the arguments, which stay on record with what it
\* came to.
VoteInfoNew ==
    /\ res.op = "vote_info_input"
    /\ LET r == VoteInfo_new(res.votes, res.voting_powers)
       IN res' = [op |-> "VoteInfo::new", votes |-> res.votes,
                  voting_powers |-> res.voting_powers,
                  kind |-> r.kind, value |-> r.value, message |-> r.message]
    /\ UNCHANGED <<store, signers, deduped, cons_store, cres, host, kv, vres>>

InitVoteInfo ==
    /\ store = {}
    /\ res \in {VoteInfoInput(votes, voting_powers) :
                  votes \in Votes, voting_powers \in VotingPowerTables}
    /\ signers = {}
    /\ deduped = EmptyMap
    /\ cons_store = EmptyMap
    /\ cres = [op |-> "none"]
    /\ host = NoHost
    /\ kv = EmptyMap
    /\ vres = NoCall

NextVoteInfo == VoteInfoNew

SpecVoteInfo == InitVoteInfo /\ [][NextVoteInfo]_vars

\* C21: a missing voting power for a claimed vote is surfaced as an error
\* value on the update path too: VoteInfo::new on votes for which the table
\* has no entry under the exact (address, height) pair returns, and does not
\* abort.
C21_MissingPowerIsError ==
    (res.op = "VoteInfo::new"
       /\ ~(SeenPairs(res.votes) \subseteq DOMAIN res.voting_powers))
        => res.kind # "panic"

-----------------------------------------------------------------------------
(* Sequences of calculate_update steps                                     *)

\* The record of a step on the tally: the step, its arguments, what it
\* returned, and for each validator credited so far the power that was
\* supplied for it in the step that credited it.
Step(op, pre, vote_info, r, credited) ==
    [op |-> op, ok |-> r.ok, err |-> r.err, pre |-> pre,
     vote_info |-> vote_info, post |-> r.tally, credited |-> credited]

\* The powers calculate_new is supplied for the pairs of seen_by.
SuppliedNew(seen_by, voting_powers) ==
    [a \in DOMAIN seen_by |-> voting_powers[<<a, seen_by[a]>>]]

\* The powers a vote_info supplies for its voters, over those on record.
SuppliedUpdate(credited, vote_info) ==
    [a \in DOMAIN credited \cup DOMAIN vote_info |->
        IF a \in DOMAIN vote_info THEN vote_info[a].power ELSE credited[a]]

\* calculate_new, its tally becoming the current one when it is Ok.
TallyNew ==
    /\ store = {}
    /\ \E seen_by \in Votes, voting_powers \in VotingPowerTables :
          LET r == calculate_new(seen_by, voting_powers)
          IN /\ res' = Step("calculate_new", NoTally, EmptyMap, r,
                            IF r.ok THEN SuppliedNew(seen_by, voting_powers)
                            ELSE EmptyMap)
             /\ store' = IF r.ok THEN {r.tally} ELSE store
    /\ UNCHANGED <<signers, deduped, cons_store, cres, host, kv, vres>>

\* calculate_update on the current tally, its tally becoming the current one
\* when it is Ok.
TallyUpdate ==
    /\ store # {}
    /\ \E vote_info \in VoteInfo :
          LET pre == CHOOSE t \in store : TRUE
              r == calculate_update(pre, vote_info)
          IN /\ res' = Step("calculate_update", pre, vote_info, r,
                            IF r.ok
                            THEN SuppliedUpdate(res.credited, vote_info)
                            ELSE res.credited)
             /\ store' = IF r.ok THEN {r.tally} ELSE store
    /\ UNCHANGED <<signers, deduped, cons_store, cres, host, kv, vres>>

InitTally ==
    /\ store = {}
    /\ res = Step("none", NoTally, EmptyMap, Err(""), EmptyMap)
    /\ signers = {}
    /\ deduped = EmptyMap
    /\ cons_store = EmptyMap
    /\ cres = [op |-> "none"]
    /\ host = NoHost
    /\ kv = EmptyMap
    /\ vres = NoCall

NextTally == TallyNew \/ TallyUpdate

SpecTally == InitTally /\ [][NextTally]_vars

\* A calculate_update step has returned Ok.
UpdateOk == res.op = "calculate_update" /\ res.ok

\* C22: a successful calculate_update step never changes the height credited
\* to a validator: every address of pre.seen_by keeps its height, and every
\* newly added address has the height it has in vote_info.
C22_HeightsKept ==
    UpdateOk =>
        /\ \A a \in DOMAIN res.pre.seen_by :
              /\ a \in DOMAIN res.post.seen_by
              /\ res.post.seen_by[a] = res.pre.seen_by[a]
        /\ \A a \in DOMAIN res.vote_info :
              /\ a \in DOMAIN res.post.seen_by
              /\ res.post.seen_by[a] = res.vote_info[a].height

\* A validator added at another height than the one credited before it.
C22_Witness ==
    /\ UpdateOk
    /\ \E a \in DOMAIN res.pre.seen_by, b \in DOMAIN res.vote_info :
          /\ res.pre.seen_by[a] # res.vote_info[b].height
          /\ res.post.seen_by[a] = res.pre.seen_by[a]
          /\ res.post.seen_by[b] = res.vote_info[b].height

\* C23: in every tally reached by calculate_new and successful
\* calculate_update steps, voting_power is the sum over the addresses of
\* seen_by of the power supplied for that address in the step that credited
\* it: none is counted twice and none is dropped.
C23_PowerIsSumOfCredited ==
    \A t \in store :
        /\ DOMAIN t.seen_by = DOMAIN res.credited
        /\ t.voting_power = TableSum(res.credited, DOMAIN res.credited)

\* Two validators credited in different steps with different non-zero powers.
C23_Witness ==
    /\ UpdateOk
    /\ store = {res.post}
    /\ \E a \in DOMAIN res.pre.seen_by, b \in DOMAIN res.vote_info :
          /\ res.credited[a] > 0
          /\ res.credited[b] > 0
          /\ res.credited[a] # res.credited[b]

-----------------------------------------------------------------------------
(* calculate_update on batches of votes                                    *)

\* What a validator is in the tally and the two batches: nothing, a voter of
\* pre.seen_by, or a voter of one of the batches a and b.
Roles ==
    [role : {"none"}, height : {CHOOSE h \in Heights : TRUE}, power : {0}]
    \cup [role : {"pre"}, height : Heights, power : {0}]
    \cup [role : {"a", "b"}, height : Heights, power : Powers]

\* The votes and the vote info of the validators with a role.
VotesOf(f, role) ==
    [x \in {y \in DOMAIN f : f[y].role = role} |-> f[x].height]
VoteInfoOf(f, role) ==
    [x \in {y \in DOMAIN f : f[y].role = role} |->
        [height |-> f[x].height, power |-> f[x].power]]

\* A tally and two batches of votes, nothing computed yet.
BatchInput(pre, a, b) ==
    [op |-> "batch_input", pre |-> pre, a |-> a, b |-> b]

\* The `?` between two steps: the second is taken on the tally of the first.
Then(r, vote_info) ==
    IF r.ok THEN calculate_update(r.tally, vote_info) ELSE r

\* HashMap union of two vote infos with different voters.
Union(a, b) ==
    [x \in DOMAIN a \cup DOMAIN b |-> IF x \in DOMAIN a THEN a[x] ELSE b[x]]

\* calculate_update with a then b, with b then a, and once with both.
ApplyBatches ==
    /\ res.op = "batch_input"
    /\ res' = [op |-> "calculate_update_batches", pre |-> res.pre,
               a |-> res.a, b |-> res.b,
               a_then_b |-> Then(calculate_update(res.pre, res.a), res.b),
               b_then_a |-> Then(calculate_update(res.pre, res.b), res.a),
               together |-> calculate_update(res.pre, Union(res.a, res.b))]
    /\ UNCHANGED <<store, signers, deduped, cons_store, cres, host, kv, vres>>

InitBatch ==
    /\ store = {}
    /\ res \in {BatchInput(Tally(p, VotesOf(f, "pre"), seen),
                           VoteInfoOf(f, "a"), VoteInfoOf(f, "b")) :
                  f \in [BatchAddress -> Roles], p \in Powers,
                  seen \in BOOLEAN}
    /\ signers = {}
    /\ deduped = EmptyMap
    /\ cons_store = EmptyMap
    /\ cres = [op |-> "none"]
    /\ host = NoHost
    /\ kv = EmptyMap
    /\ vres = NoCall

NextBatch == ApplyBatches

SpecBatch == InitBatch /\ [][NextBatch]_vars

\* C24: for every tally pre and every two vote sets a and b whose voters are
\* disjoint from each other and from pre.seen_by, calculate_update with a
\* then b, with b then a, and once with the union of a and b all return the
\* same tally.
C24_BatchingIrrelevant ==
    (/\ res.op = "calculate_update_batches"
     /\ DOMAIN res.a \cap DOMAIN res.b = {}
     /\ DOMAIN res.a \cap DOMAIN res.pre.seen_by = {}
     /\ DOMAIN res.b \cap DOMAIN res.pre.seen_by = {})
        => /\ res.a_then_b.ok
           /\ res.a_then_b.tally = res.b_then_a.tally
           /\ res.a_then_b.tally = res.together.tally
           /\ res.b_then_a.ok /\ res.together.ok

\* Two non-empty batches of different powers on a tally with a voter, the
\* quorum reached only by both batches together.
C24_Witness ==
    /\ res.op = "calculate_update_batches"
    /\ DOMAIN res.pre.seen_by # {}
    /\ \E x \in DOMAIN res.a, y \in DOMAIN res.b :
          /\ res.a[x].power # res.b[y].power
          /\ res.a[x].power > 0 /\ res.b[y].power > 0
    /\ res.together.ok
    /\ res.together.tally.seen
    /\ ~calculate_update(res.pre, res.a).tally.seen
    /\ ~calculate_update(res.pre, res.b).tally.seen
    /\ res.a_then_b.tally = res.together.tally

-----------------------------------------------------------------------------
(* validate_self_client: the trust level and the order of the checks       *)

\* The call was given a Tendermint client state that passes the five checks
\* before the trust level, the host chain ID and height being read.
PassesFiveChecks ==
    /\ SelfValidated
    /\ vres.any.kind = "tendermint"
    /\ vres.io.get_chain_id /\ vres.io.get_height
    /\ ~vres.any.is_frozen
    /\ to_string(vres.any.chain_id) = host.chain_id
    /\ version(vres.any.chain_id) = 0
    /\ vres.any.latest_height < host.height
    /\ vres.any.proof_specs = host.proof_specs

\* C25: the trust-level check compares floor(numerator / denominator) with
\* floor(1/3) = 0, so every client state that passes the five preceding
\* checks and has a non-zero numerator and denominator is answered Ok.
C25_NonZeroTrustLevelPasses ==
    (/\ PassesFiveChecks
     /\ vres.any.trust_level.numerator # 0
     /\ vres.any.trust_level.denominator # 0)
        => vres.result = SelfOk

\* Ok for a non-zero trust level below 1/3.
C25_Witness ==
    /\ PassesFiveChecks
    /\ vres.any.trust_level.numerator # 0
    /\ BelowOneThird(vres.any.trust_level)
    /\ vres.result = SelfOk

\* The checks in the order of the claim, each with the error it reports.
SelfChecks ==
    LET c == vres.any
        tm == c.kind = "tendermint"
    IN <<[fails |-> c.kind = "undecodable",
          error |-> "Decoding the client state failed"],
         [fails |-> ~tm, error |-> "The client state is not for Tendermint"],
         [fails |-> tm /\ c.is_frozen, error |-> "The client is frozen"],
         [fails |-> tm /\ to_string(c.chain_id) # host.chain_id,
          error |-> "The chain ID mismatched"],
         [fails |-> tm /\ version(c.chain_id) # 0,
          error |-> "The chain ID revision is not zero"],
         [fails |-> tm /\ c.latest_height >= host.height,
          error |-> "The height of the client state is higher"],
         [fails |-> tm /\ c.proof_specs # host.proof_specs,
          error |-> "The proof specs mismatched"],
         [fails |-> tm /\ trust_level_check_fails(c),
          error |-> "The trust threshold is less 1/3"]>>

\* The error of the first check that fails, "" when none does.
FirstFailing ==
    LET failing == {i \in DOMAIN SelfChecks : SelfChecks[i].fails}
    IN IF failing = {} THEN ""
       ELSE SelfChecks[CHOOSE i \in failing : \A j \in failing : i <= j].error

\* C26: validate_self_client reports the first failing check in the order
\* decode, Tendermint variant, frozen, chain-ID equality, zero revision,
\* height, proof specs, trust level; a frozen Tendermint client state is
\* answered "The client is frozen" whatever its other fields and the host
\* are, and whether or not the host chain ID and height can be read.
C26_FirstFailingCheck ==
    SelfValidated =>
        /\ (vres.any.kind = "tendermint" /\ vres.any.is_frozen)
              => vres.result = ClientErrorOther("The client is frozen")
        /\ (vres.io.get_chain_id /\ vres.io.get_height)
              => vres.result.description = FirstFailing

\* A frozen state of another chain, at a height above the host's, the host
\* chain ID and height unreadable.
C26_Witness ==
    /\ SelfValidated
    /\ vres.any.kind = "tendermint" /\ vres.any.is_frozen
    /\ to_string(vres.any.chain_id) # host.chain_id
    /\ vres.any.latest_height >= host.height
    /\ ~vres.io.get_chain_id /\ ~vres.io.get_height
    /\ vres.result = ClientErrorOther("The client is frozen")

=============================================================================
